---- MODULE Spec2Model ----
(***************************************************************************)
(* Model of the batched-ingestion pipeline of the vendored groundx client  *)
(* (groundx/ingest.py, groundx/csv_splitter.py): document classification,  *)
(* batch orchestration (GroundX.ingest, GroundX.ingest_directory,          *)
(* AsyncGroundX.ingest), the uploader and the ingestion monitor.           *)
(*                                                                         *)
(* Progress amounts are counted in quarters of a unit: pbar.update(0.25)   *)
(* is 1, pbar.update(0.75) is 3, one document is 4.  0.25 and 0.75 are     *)
(* exact binary fractions, so the float arithmetic of the code is exact.   *)
(***************************************************************************)
EXTENDS Integers, Sequences, FiniteSets, TLC

\* ------------------------------------------------------------------------
\* Program constants (ingest.py:56-58, csv_splitter.py:18-19)
\* ------------------------------------------------------------------------
MAX_BATCH_SIZE == 50
MIN_BATCH_SIZE == 1
MiB == 1024 * 1024
MAX_BATCH_SIZE_BYTES == 50 * 1024 * 1024
ROWS_PER_SPLIT == 1000

\* pbar.update(0.25), pbar.update(0.75) and float(len(...)) in quarters
UPLOADED_STEP == 1
COMPLETED_STEP == 3
DOC_UNIT == 4

\* ------------------------------------------------------------------------
\* Bounds of the model
\* ------------------------------------------------------------------------
\* longest document list whose elements are chosen freely
MaxDocs == 2
\* the backend answers with a terminal job status at the latest at this poll
MaxPolls == 2
\* most lines after the header in a delimited file whose rows are followed
MaxRows == 6
\* largest magnitude of a requested batch_size when the batch size is computed
\* on its own
MaxRequest == 60

\* ------------------------------------------------------------------------
\* Values
\* ------------------------------------------------------------------------
TerminalStatuses == {"complete", "error", "cancelled"}
JobStatuses == {"queued", "processing", "complete", "error", "cancelled"}

ALLOWED_SUFFIXES ==
    {".bmp", ".gif", ".heif", ".hwp", ".ico", ".svg", ".tiff", ".webp", ".txt",
     ".docx", ".pptx", ".xlsx", ".pdf", ".png", ".jpg", ".csv", ".tsv", ".json"}
SUFFIX_ALIASES == {".jpeg", ".heic", ".tif", ".md"}
CSV_SPLITS == {".csv"}
TSV_SPLITS == {".tsv"}

\* urlparse(): a URL as its six components
Url(scheme, netloc, path, query) ==
    [scheme |-> scheme, netloc |-> netloc, path |-> path,
     params |-> "", query |-> query, fragment |-> ""]

\* A Document as the code sees it: file_path (parsed), what the filesystem
\* says about that path, and for delimited files the number of lines - 1.
Doc(file_path, exists, is_file, suffix, size, rows) ==
    [file_path |-> file_path, exists |-> exists, is_file |-> is_file,
     suffix |-> suffix, size |-> size, rows |-> rows]

RemoteDoc == Doc(Url("https", "files.example", "/a.pdf", "token=1"), FALSE, FALSE, ".pdf", 0, 0)
TxtDoc    == Doc(Url("", "", "/data/a.txt", ""), TRUE, TRUE, ".txt", 1000, 10)
CsvDoc    == Doc(Url("", "", "/data/b.csv", ""), TRUE, TRUE, ".csv", 20000, 1000)
HalfDoc   == Doc(Url("", "", "/data/c.pdf", ""), TRUE, TRUE, ".pdf", 30 * MiB, 0)
BigDoc    == Doc(Url("", "", "/data/d.pdf", ""), TRUE, TRUE, ".pdf", MAX_BATCH_SIZE_BYTES + 1, 0)
DirDoc    == Doc(Url("", "", "/data/dir", ""), TRUE, FALSE, "", 4096, 0)
MissingDoc == Doc(Url("", "", "/data/none.txt", ""), FALSE, FALSE, ".txt", 0, 0)
\* a scheme without a network location, and no such local path
NoHostDoc == Doc(Url("https", "", "/no-host.pdf", ""), FALSE, FALSE, ".pdf", 0, 0)

DocTemplates == {RemoteDoc, TxtDoc, CsvDoc, HalfDoc, BigDoc, DirDoc, MissingDoc, NoHostDoc}
LocalTemplates == {TxtDoc, CsvDoc, HalfDoc, BigDoc, DirDoc}

\* Document lists: every list of at most MaxDocs templates, and the lists of
\* MAX_BATCH_SIZE and MAX_BATCH_SIZE + 1 documents that are remote but
\* possibly the last.
ShortLists == UNION {[1..k -> DocTemplates] : k \in 0..MaxDocs}
LongLists ==
    {[i \in 1..k |-> IF i = k THEN last ELSE RemoteDoc] :
        k \in {MAX_BATCH_SIZE, MAX_BATCH_SIZE + 1}, last \in {RemoteDoc, TxtDoc, CsvDoc}}
DirLists == UNION {[1..k -> LocalTemplates] : k \in 0..MaxDocs}

\* batch_size: typing.Optional[int]
NoneSize == [isNone |-> TRUE, val |-> 0]
IntSize(v) == [isNone |-> FALSE, val |-> v]
BatchSizes == {NoneSize} \cup {IntSize(v) : v \in {-1, 0, 1, 2, MAX_BATCH_SIZE, MAX_BATCH_SIZE + 1}}

\* an exception: its class and its message
Err(kind, detail) == [kind |-> kind, detail |-> detail]
NoError == Err("none", "")

\* the validation errors of prep_documents, ingest and ingest_directory
NoDocumentsError == Err("ValueError", "No documents provided for ingestion.")
InvalidPathError(file_path) == Err("ValueError", "Invalid file path: " \o file_path.path)
NoValidDocumentsError == Err("ValueError", "No valid documents were provided")
TooManyDocumentsError ==
    Err("ValueError", "You have sent too many documents in this request")
InvalidBucketError == Err("ValueError", "Invalid bucket_id")
InvalidDirectoryError == Err("ValueError", "Invalid directory path")
NoSupportedFilesError == Err("ValueError", "No supported files found in directory")

Max(a, b) == IF a >= b THEN a ELSE b
Min(a, b) == IF a <= b THEN a ELSE b

\* int(x / d) for an integer x and d > 0: float division, truncated toward 0
TruncDiv(x, d) == IF x >= 0 THEN x \div d ELSE -((-x) \div d)
\* math.ceil(x / d) for d > 0
CeilDiv(x, d) == -((-x) \div d)

\* ------------------------------------------------------------------------
\* csv_splitter.py
\* ------------------------------------------------------------------------
\* mutant: each term is the quotient rounded up
determine_splits_Ceil(rows_count, file_size) ==
    Max(CeilDiv(rows_count, ROWS_PER_SPLIT), CeilDiv(file_size, MiB))

determine_splits(rows_count, file_size) ==
    LET row_mod == TruncDiv(rows_count, ROWS_PER_SPLIT) + 1
        file_mod == TruncDiv(file_size, MiB) + 1
    IN  Max(row_mod, file_mod)

\* Number of files CSVSplitter.split() writes when it splits: a new file is
\* opened at every data row whose index is a multiple of rows_per_file, so
\* there is one file per started group of rows_per_file rows, and none when
\* there is no data row (the loop body never runs).
SplitCount(rows_count, splits) ==
    LET rows_per_file == CeilDiv(rows_count, splits)
    IN  IF rows_count <= 0 THEN 0 ELSE CeilDiv(rows_count, rows_per_file)

\* The k-th file written by split(): named {stem}_{k}.csv, holding the header
\* and its slice of the rows.  Its byte size is taken as that share of the
\* source file.
SplitFile(d, k, splits) ==
    LET rows_per_file == CeilDiv(d.rows, splits)
        rows == Min(rows_per_file, d.rows - (k - 1) * rows_per_file)
    IN  [d EXCEPT !.suffix = ".csv", !.rows = rows,
                  !.size = CeilDiv(d.size * rows, d.rows)]

\* CSVSplitter(filepath=d).split(): the list of files
split(d) ==
    LET splits == determine_splits(d.rows, d.size)
    IN  IF splits < 2 THEN <<d>>
        ELSE [k \in 1..SplitCount(d.rows, splits) |-> SplitFile(d, k, splits)]

\* The content of a delimited file as CSVSplitter reads it: the header, the
\* data rows csv.reader yields (a row is identified by its position) and the
\* number of lines after the first, which is the number of data rows unless a
\* quoted field spans lines.
Csv(d, nrecords) == [doc |-> d, headers |-> "H", records |-> [k \in 1..nrecords |-> k]]

\* mutant: the header is not written to a new file
NewFile_NoHeader(headers) == [headers |-> "", rows |-> <<>>]

\* a file just opened: current_writer.writerow(headers)
NewFile(headers) == [headers |-> headers, rows |-> <<>>]

\* current_writer.writerow(row): the row goes to the file opened last
WriteRow(split_files, row) ==
    [split_files EXCEPT ![Len(split_files)].rows = Append(@, row)]

\* A path the splitter returns, by the parts of its file name: the file whose
\* stem it carries, the number after the underscore (0: there is none) and
\* the extension.
\* Path(self.filepath): the file itself
SourcePath(d) == [stem_of |-> d.file_path.path, number |-> 0, suffix |-> d.suffix]
\* f"{os.path.splitext(self.filename)[0]}_{current_file_number}.csv"
OutputPath(d, current_file_number) ==
    [stem_of |-> d.file_path.path, number |-> current_file_number, suffix |-> ".csv"]

\* the body of "for row in reader" (lines 43-59) on the loop state st; numbers
\* holds the file numbers of the paths appended to the returned list
SplitRow(st, row, headers, rows_per_file) ==
    LET opens == st.current_row % rows_per_file = 0
        opened == IF opens
                  THEN Append(st.split_files, NewFile(headers))
                  ELSE st.split_files
    IN  [split_files |-> WriteRow(opened, row),
         numbers |-> IF opens THEN Append(st.numbers, st.current_file_number)
                     ELSE st.numbers,
         current_file_number |-> IF opens THEN st.current_file_number + 1
                                 ELSE st.current_file_number,
         current_row |-> st.current_row + 1]

RECURSIVE SplitLoop(_, _, _, _, _, _)
\* "for row in reader" for the rows at positions lo .. hi - 1, in order: the
\* first half of them, then the second half from the state the first half
\* has left (its row count is looked at so that it is evaluated first)
SplitLoop(records, headers, rows_per_file, lo, hi, st) ==
    IF lo >= hi THEN st
    ELSE IF hi = lo + 1 THEN SplitRow(st, records[lo], headers, rows_per_file)
    ELSE LET mid == (lo + hi) \div 2
             first == SplitLoop(records, headers, rows_per_file, lo, mid, st)
         IN  IF first.current_row = st.current_row + (mid - lo)
             THEN SplitLoop(records, headers, rows_per_file, mid, hi, first)
             ELSE first

\* mutant: rows_per_file is the quotient rounded down (at least 1)
split_rows_RoundsDown(f) ==
    LET splits == determine_splits(f.doc.rows, f.doc.size)
        rows_per_file == Max(1, TruncDiv(f.doc.rows, splits))
    IN  SplitLoop(f.records, f.headers, rows_per_file, 1, Len(f.records) + 1,
                  [split_files |-> <<>>, numbers |-> <<>>, current_file_number |-> 1,
                   current_row |-> 0])

\* lines 28-62 on the content f: the loop state when the reader is exhausted
split_rows(f) ==
    LET splits == determine_splits(f.doc.rows, f.doc.size)
        rows_per_file == CeilDiv(f.doc.rows, splits)
    IN  SplitLoop(f.records, f.headers, rows_per_file, 1, Len(f.records) + 1,
                  [split_files |-> <<>>, numbers |-> <<>>, current_file_number |-> 1,
                   current_row |-> 0])

\* CSVSplitter(filepath).split() on the content f: what the returned files hold
split_contents(f) ==
    IF determine_splits(f.doc.rows, f.doc.size) < 2
    THEN <<[headers |-> f.headers, rows |-> f.records]>>
    ELSE split_rows(f).split_files

\* CSVSplitter(filepath).split() on the content f: the returned list of paths
split_paths(f) ==
    IF determine_splits(f.doc.rows, f.doc.size) < 2
    THEN <<SourcePath(f.doc)>>
    ELSE LET numbers == split_rows(f).numbers
         IN  [k \in 1..Len(numbers) |-> OutputPath(f.doc, numbers[k])]

\* ------------------------------------------------------------------------
\* ingest.py: pure helpers
\* ------------------------------------------------------------------------
\* mutant: the URL is returned as it was given
strip_query_params_Identity(url) == url

strip_query_params(url) ==
    [scheme |-> url.scheme, netloc |-> url.netloc, path |-> url.path,
     params |-> "", query |-> "", fragment |-> ""]

\* mutant: no path is taken for a URL
is_valid_url_Never(file_path) == FALSE

\* all([result.scheme, result.netloc])
is_valid_url(file_path) == file_path.scheme # "" /\ file_path.netloc # ""
is_valid_local_path(d) == d.exists

split_doc(d) ==
    IF d.is_file /\ (d.suffix \in ALLOWED_SUFFIXES \/ d.suffix \in SUFFIX_ALIASES)
    THEN IF d.suffix \in CSV_SPLITS \/ d.suffix \in TSV_SPLITS
         THEN split(d)
         ELSE <<d>>
    ELSE <<>>

\* mutant: the request is capped at MAX_BATCH_SIZE but not raised to
\* MIN_BATCH_SIZE
EffectiveBatchSize_NoFloor(batch_size) ==
    Min(IF batch_size.isNone \/ batch_size.val = 0 THEN MIN_BATCH_SIZE ELSE batch_size.val,
        MAX_BATCH_SIZE)

\* n = max(MIN_BATCH_SIZE, min(batch_size or MIN_BATCH_SIZE, MAX_BATCH_SIZE))
EffectiveBatchSize(batch_size) ==
    LET b == IF batch_size.isNone \/ batch_size.val = 0
             THEN MIN_BATCH_SIZE ELSE batch_size.val
    IN  Max(MIN_BATCH_SIZE, Min(b, MAX_BATCH_SIZE))

\* the IngestRemoteDocument prep_documents builds for a remote document
RemoteRecord(i, d) ==
    [idx |-> i, frag |-> 0, origin |-> "remote", source_url |-> d.file_path]
\* the IngestRemoteDocument _process_local builds for an uploaded fragment
UploadedRecord(i, f, url) ==
    [idx |-> i, frag |-> f, origin |-> "local", source_url |-> url]

\* a local Document with its position in the input
LocalDoc(i, d) == [idx |-> i, doc |-> d]

RECURSIVE PrepLoop(_, _, _, _)
\* the for loop of prep_documents from position i on
PrepLoop(documents, i, remote, local) ==
    IF i > Len(documents)
    THEN [ok |-> TRUE, remote |-> remote, local |-> local, error |-> NoError]
    ELSE LET d == documents[i]
         IN  IF is_valid_url(d.file_path)
             THEN PrepLoop(documents, i + 1, Append(remote, RemoteRecord(i, d)), local)
             ELSE IF is_valid_local_path(d)
             THEN PrepLoop(documents, i + 1, remote, Append(local, LocalDoc(i, d)))
             ELSE [ok |-> FALSE, remote |-> <<>>, local |-> <<>>,
                   error |-> InvalidPathError(d.file_path)]

\* mutant: the local documents are left out of the result
prep_documents_DropsLocal(documents) ==
    [PrepLoop(documents, 1, <<>>, <<>>) EXCEPT !.local = <<>>]

\* mutant: the test for an empty input is missing
prep_documents_NoEmptyTest(documents) == PrepLoop(documents, 1, <<>>, <<>>)

\* returns (remote_documents, local_documents) or raises
prep_documents(documents) ==
    IF Len(documents) = 0
    THEN [ok |-> FALSE, remote |-> <<>>, local |-> <<>>, error |-> NoDocumentsError]
    ELSE PrepLoop(documents, 1, <<>>, <<>>)

\* mutant: the guard counts the remote documents only
TooManyDocuments_RemoteOnly(remote, local) == Len(remote) > MAX_BATCH_SIZE

\* elif len(remote_documents) + len(local_documents) > MAX_BATCH_SIZE
TooManyDocuments(remote, local) == Len(remote) + Len(local) > MAX_BATCH_SIZE

\* ------------------------------------------------------------------------
\* Job snapshots (IngestResponse) and the answers of the backend
\* ------------------------------------------------------------------------
NoProgress ==
    [present |-> FALSE, processing |-> <<>>, complete |-> <<>>,
     cancelled |-> <<>>, errors |-> <<>>]
Progress(processing, complete, cancelled, errors) ==
    [present |-> TRUE, processing |-> processing, complete |-> complete,
     cancelled |-> cancelled, errors |-> errors]
Snapshot(process_id, status, prog) ==
    [process_id |-> process_id, status |-> status, progress |-> prog]
Entry(document_id, status) == [document_id |-> document_id, status |-> status]

\* ingest = IngestResponse(ingest=IngestResponseIngest(process_id="", status="queued"))
InitialIngest == Snapshot(0, "queued", NoProgress)

\* Per-document entries a status answer may list when a job is monitored on
\* its own: a terminal and a non-terminal entry of document 1, a terminal
\* entry of document 2.
MonitorEntries == {Entry(1, "complete"), Entry(1, "processing"), Entry(2, "error")}
MonitorGroups == {<<>>} \cup {<<e>> : e \in MonitorEntries}
\* progress absent, or at most two of the four sub-groups non-empty
MonitorProgresses ==
    {NoProgress} \cup
    {p \in {Progress(a, b, c, d) : a \in MonitorGroups, b \in MonitorGroups,
                                   c \in MonitorGroups, d \in MonitorGroups} :
        Cardinality({g \in {"processing", "complete", "cancelled", "errors"} :
                        p[g] # <<>>}) <= 2}

\* Within an ingest call the backend follows its state machine, queued ->
\* processing -> {complete, error, cancelled}: a registration answers queued
\* or a terminal status, a poll answers processing or a terminal status.
RegistrationStatuses == {"queued", "complete", "error", "cancelled"}
PollStatuses == {"processing", "complete", "error", "cancelled"}
\* It lists documents of the registered batch: document_id k is the k-th
\* record of the registration.
CompleteEntries(k) == [j \in 1..k |-> Entry(j, "complete")]
BatchProgresses(nrecords) ==
    {NoProgress} \cup
    {Progress(<<>>, CompleteEntries(k), <<>>, <<>>) : k \in {Min(1, nrecords), nrecords}}

\* ------------------------------------------------------------------------
\* State
\* ------------------------------------------------------------------------
VARIABLES
    pc,                 \* where the call stands
    ret,                \* what the running _process_local/_monitor_batch returns to
    mode,               \* "sync", "nonblocking", "async", "directory", "monitor"
    n,                  \* effective batch size
    remote_documents,   \* prep_documents()[0]
    local_documents,    \* prep_documents()[1]
    files,              \* ingest_directory: load_directory_files(path)
    remote_batch,
    local_batch,        \* local_batch of ingest, current_batch of ingest_directory
    current_batch_size,
    ri,                 \* position of the for loop over remote_documents
    li,                 \* position of the for loop over local_documents / files
    pl_frags,           \* the fragments _process_local/_upload_file_batch iterates
    pl_i,               \* position in pl_frags
    up_docs,            \* remote_docs of _process_local, docs of _upload_file_batch
    progress,           \* the progress float, in quarters
    pbar,               \* sum of pbar.update() amounts, in quarters
    ingest,             \* the latest job snapshot
    completed_files,    \* the set of _monitor_batch
    outcome,            \* "running", "returned", "raised"
    error,              \* which exception ended the call
    result,             \* the value returned to the caller
    registered,         \* log: the documents of every ingest_remote call
    uploads,            \* log: the fragments handed to _upload_file
    transfers,          \* log: number of PUT requests sent
    dispatched,         \* log: the sealed batches
    observed,           \* log: job statuses seen by the running _monitor_batch
    answered,           \* log: the latest answer of the backend about the job
    counted,            \* log: progress increments per document_id in this _monitor_batch
    call,               \* log: the entry point called and its arguments
    last_upload         \* log: the latest _upload_file call of the running upload loop

vars ==
    <<pc, ret, mode, n, remote_documents, local_documents, files, remote_batch,
      local_batch, current_batch_size, ri, li, pl_frags, pl_i, up_docs, progress,
      pbar, ingest, completed_files, outcome, error, result, registered, uploads,
      transfers, dispatched, observed, answered, counted, call, last_upload>>

setupVars == <<mode, n, remote_documents, local_documents, files>>
callVars == <<mode, n, remote_documents, local_documents, files, call>>
loopVars == <<remote_batch, local_batch, current_batch_size, ri, li>>
uploadVars == <<pl_frags, pl_i, up_docs, uploads, transfers, last_upload>>
monitorVars == <<ingest, completed_files, observed, answered, counted>>
endVars == <<outcome, error, result>>

NoCounts == [d \in {} |-> 0]
CountOf(c, d) == IF d \in DOMAIN c THEN c[d] ELSE 0
Bump(c, d) == [x \in DOMAIN c \cup {d} |-> CountOf(c, x) + (IF x = d THEN 1 ELSE 0)]

\* ------------------------------------------------------------------------
\* _monitor_batch
\* ------------------------------------------------------------------------
\* mutant: the loop is never entered, the registration answer is final
KeepsPolling_Never(status) == FALSE

\* mutant: the loop runs only while the job is processing
KeepsPolling_WhileProcessing(status) == status = "processing"

\* while ingest is not None and ingest.ingest.status not in [...]
KeepsPolling(status) == status \notin {"complete", "error", "cancelled"}

\* mutant: the completed_files test is missing
CountsNow_NoDedupe(doc, completed) == doc.status \in {"complete", "error", "cancelled"}

\* if doc.status in ["complete", "error", "cancelled"]
\*    and doc.document_id not in completed_files
CountsNow(doc, completed) ==
    doc.status \in {"complete", "error", "cancelled"} /\ doc.document_id \notin completed

RECURSIVE ScanGroup(_, _, _)
\* one "for doc in ...documents" loop; st carries completed_files, progress,
\* the bar and the per-document increment log
ScanGroup(docs, i, st) ==
    IF i > Len(docs) THEN st
    ELSE IF CountsNow(docs[i], st.completed)
    THEN ScanGroup(docs, i + 1,
             [completed |-> st.completed \cup {docs[i].document_id},
              progress |-> st.progress - COMPLETED_STEP,
              pbar |-> st.pbar + COMPLETED_STEP,
              counted |-> Bump(st.counted, docs[i].document_id)])
    ELSE ScanGroup(docs, i + 1, st)

\* the body of "if ingest.ingest.progress:" for one poll answer
ScanProgress(p, st) ==
    IF ~p.present THEN st
    ELSE ScanGroup(p.errors, 1,
           ScanGroup(p.cancelled, 1,
             ScanGroup(p.complete, 1,
               ScanGroup(p.processing, 1, st))))

\* ingest = self.documents.get_processing_status_by_id(...): the answer
\* replaces the snapshot held so far
NextSnapshot(current, answer) == answer

\* mutant: the monitor never raises
MonitorRaises_Never(status) == FALSE

\* mutant: a cancelled job is returned like a complete one
MonitorRaises_ErrorOnly(status) == status = "error"

\* if ingest.ingest.status in ["error", "cancelled"]: raise ValueError(...)
MonitorRaises(status) == status \in {"error", "cancelled"}

\* ------------------------------------------------------------------------
\* _upload_file
\* ------------------------------------------------------------------------
PresignedUrls ==
    {Url("https", "upload.example", "/bucket/key", "X-Signature=abc"),
     [Url("https", "upload.example", "/bucket/key", "X-Signature=abc")
         EXCEPT !.params = "v=1", !.fragment = "part"]}
\* presigned_info: "Method" may be missing ("absent")
Methods == {"PUT", "put", "POST", "absent"}
PresignAnswers ==
    {[ok |-> FALSE, URL |-> Url("", "", "", ""), Method |-> "absent"]} \cup
    {[ok |-> TRUE, URL |-> u, Method |-> m] : u \in PresignedUrls, m \in Methods}
PutStatuses == {200, 201, 204, 403, 500}

Upper(s) == CASE s = "put" -> "PUT" [] s = "post" -> "POST" [] OTHER -> s
\* mutant: the declared method is ignored
MethodOf_AlwaysPut(info) == "PUT"

\* method = presigned_info.get("Method", "PUT").upper()
MethodOf(info) == Upper(IF info.Method = "absent" THEN "PUT" ELSE info.Method)
\* if upload_response.status_code not in (200, 201): raise
UploadAccepted(status_code) == status_code \in {200, 201}

\* One _upload_file call, given the presign answer, whether the file can be
\* read, and the status of the PUT: the exception or the returned URL, and
\* whether the PUT was sent.
upload_file(info, readable, status_code) ==
    IF ~info.ok
    THEN [ok |-> FALSE, error |-> Err("HTTPError", "presign"), put |-> FALSE, url |-> info.URL]
    ELSE IF ~readable
    THEN [ok |-> FALSE, error |-> Err("ValueError", "read"), put |-> FALSE, url |-> info.URL]
    ELSE IF MethodOf(info) # "PUT"
    THEN [ok |-> FALSE, error |-> Err("ValueError", "method"), put |-> FALSE, url |-> info.URL]
    ELSE IF ~UploadAccepted(status_code)
    THEN [ok |-> FALSE, error |-> Err("Exception", "upload"), put |-> TRUE, url |-> info.URL]
    ELSE [ok |-> TRUE, error |-> NoError, put |-> TRUE, url |-> strip_query_params(info.URL)]

\* the file is opened only after the presign request has succeeded
FileReads(info) == IF info.ok THEN BOOLEAN ELSE {FALSE}
\* the PUT is answered only when it is sent (0: no response)
PutAnswers(info, readable) ==
    IF info.ok /\ readable /\ MethodOf(info) = "PUT" THEN PutStatuses ELSE {0}

\* what is logged of one _upload_file call: the presign answer, whether the
\* file was read, whether the PUT was sent and the status it got (0 when it
\* was not sent)
UploadLog(info, readable, up, status_code) ==
    [called |-> TRUE, Method |-> info.Method, URL |-> info.URL, read |-> readable,
     put |-> up.put, status_code |-> IF up.put THEN status_code ELSE 0, ok |-> up.ok]
NoUpload ==
    [called |-> FALSE, Method |-> "absent", URL |-> Url("", "", "", ""), read |-> FALSE,
     put |-> FALSE, status_code |-> 0, ok |-> FALSE]

\* ------------------------------------------------------------------------
\* Building blocks of the actions
\* ------------------------------------------------------------------------
NoneResult == Snapshot(0, "none", NoProgress)

CallOf(api, documents, wait_for_complete) ==
    [api |-> api, documents |-> documents, wait_for_complete |-> wait_for_complete]
NoCall == CallOf("none", <<>>, FALSE)

Raise(e) ==
    /\ pc' = "done"
    /\ outcome' = "raised"
    /\ error' = e
    /\ result' = result

Return(v) ==
    /\ pc' = "done"
    /\ outcome' = "returned"
    /\ error' = NoError
    /\ result' = v

\* the fragments the nested loops of _process_local visit for a list of
\* local documents: for d in local_docs: for sd in split_doc(d)
FilesOf(ld) ==
    LET splits == split_doc(ld.doc)
    IN  [f \in 1..Len(splits) |-> [idx |-> ld.idx, frag |-> f, doc |-> splits[f]]]

RECURSIVE Fragments(_, _)
Fragments(docs, i) ==
    IF i > Len(docs) THEN <<>>
    ELSE FilesOf(docs[i]) \o Fragments(docs, i + 1)

BatchLog(kind, docs, bytes) ==
    [kind |-> kind, docs |-> [i \in 1..Len(docs) |-> docs[i].idx], bytes |-> bytes]

\* mutant: the count test is off by one
SealsBatch_OffByOne(batch_bytes, file_size, count, size) ==
    (batch_bytes + file_size > MAX_BATCH_SIZE_BYTES) \/ (count > size)

\* if (current_batch_size + file_size > MAX_BATCH_SIZE_BYTES) or (len(batch) >= n)
SealsBatch(batch_bytes, file_size, count, size) ==
    (batch_bytes + file_size > MAX_BATCH_SIZE_BYTES) \/ (count >= size)

\* mutant: the remote batch is sealed one document late
SealsRemoteBatch_OffByOne(count, size) == count > size

\* if len(remote_batch) >= n
SealsRemoteBatch(count, size) == count >= size

\* if progress > 0: pbar.update(progress)
Reconciled(bar, prog) == IF prog > 0 THEN bar + prog ELSE bar

\* The answer to ingest_remote(documents=docs): the call fails, or a job is
\* created and _monitor_batch is entered with return point r.
Register(docs, r) ==
    /\ registered' = Append(registered, docs)
    /\ \/ /\ Raise(Err("ApiError", "ingest_remote"))
          /\ UNCHANGED <<ret, monitorVars>>
       \/ \E status \in RegistrationStatuses :
            LET job == Snapshot(Len(registered) + 1, status, NoProgress)
            IN  /\ pc' = "monitor"
                /\ ret' = r
                /\ ingest' = job
                /\ answered' = job
                /\ completed_files' = {}
                /\ observed' = <<status>>
                /\ counted' = NoCounts
                /\ UNCHANGED endVars

\* _process_local / _upload_file_batch is entered to upload the files frags
EnterUploads(frags, r) ==
    /\ pc' = "process_local"
    /\ ret' = r
    /\ pl_frags' = frags
    /\ pl_i' = 1
    /\ up_docs' = <<>>
    /\ last_upload' = NoUpload
    /\ UNCHANGED <<uploads, transfers>>

\* ------------------------------------------------------------------------
\* Initial state: the client is constructed, no call has been made
\* ------------------------------------------------------------------------
Init ==
    /\ pc = "idle"
    /\ ret = "none"
    /\ mode = "none"
    /\ n = 0
    /\ remote_documents = <<>>
    /\ local_documents = <<>>
    /\ files = <<>>
    /\ remote_batch = <<>>
    /\ local_batch = <<>>
    /\ current_batch_size = 0
    /\ ri = 1
    /\ li = 1
    /\ pl_frags = <<>>
    /\ pl_i = 1
    /\ up_docs = <<>>
    /\ progress = 0
    /\ pbar = 0
    /\ ingest = InitialIngest
    /\ completed_files = {}
    /\ outcome = "running"
    /\ error = NoError
    /\ result = NoneResult
    /\ registered = <<>>
    /\ uploads = <<>>
    /\ transfers = 0
    /\ dispatched = <<>>
    /\ observed = <<>>
    /\ answered = InitialIngest
    /\ counted = NoCounts
    /\ call = NoCall
    /\ last_upload = NoUpload

\* The arguments of an ingest call: every short list with every batch size,
\* the long lists with the batch sizes that make one or two batches of them.
IngestArgs ==
    (ShortLists \X BatchSizes \X BOOLEAN) \cup
    (LongLists \X {IntSize(MAX_BATCH_SIZE), IntSize(MAX_BATCH_SIZE + 1)} \X BOOLEAN)

\* ------------------------------------------------------------------------
\* GroundX.ingest: from the call to the first loop
\* ------------------------------------------------------------------------
IngestCall ==
    /\ pc = "idle"
    /\ \E args \in IngestArgs :
        LET documents == args[1]
            batch_size == args[2]
            wait_for_complete == args[3]
            prep == prep_documents(documents)
        IN  /\ call' = CallOf("ingest", documents, wait_for_complete)
            /\ IF ~prep.ok \/ Len(prep.remote) + Len(prep.local) = 0
               THEN /\ Raise(IF ~prep.ok THEN prep.error ELSE NoValidDocumentsError)
                    /\ UNCHANGED <<ret, setupVars, loopVars, uploadVars, monitorVars,
                                   progress, pbar, registered, dispatched>>
               ELSE IF wait_for_complete
               THEN /\ mode' = "sync"
                    /\ n' = EffectiveBatchSize(batch_size)
                    /\ remote_documents' = prep.remote
                    /\ local_documents' = prep.local
                    /\ pc' = "remote_loop"
                    /\ remote_batch' = <<>>
                    /\ ri' = 1
                    /\ ingest' = InitialIngest
                    /\ progress' = DOC_UNIT * Len(prep.remote)
                    /\ UNCHANGED <<ret, files, local_batch, current_batch_size, li,
                                   uploadVars, completed_files, observed, answered,
                                   counted, endVars, pbar, registered, dispatched>>
               ELSE IF TooManyDocuments(prep.remote, prep.local)
               THEN /\ Raise(TooManyDocumentsError)
                    /\ UNCHANGED <<ret, setupVars, loopVars, uploadVars, monitorVars,
                                   progress, pbar, registered, dispatched>>
               ELSE /\ mode' = "nonblocking"
                    /\ remote_documents' = prep.remote
                    /\ local_documents' = prep.local
                    /\ EnterUploads(Fragments(prep.local, 1), "nonblocking")
                    /\ UNCHANGED <<n, files, loopVars, monitorVars, endVars, progress,
                                   pbar, registered, dispatched>>

\* ------------------------------------------------------------------------
\* GroundX.ingest, synchronous mode: the loop over remote_documents
\* ------------------------------------------------------------------------
\* remote_batch.append(rd); pbar.update(0.25); progress -= 0.25
AppendRemote ==
    /\ remote_batch' = Append(remote_batch, remote_documents[ri])
    /\ pbar' = pbar + UPLOADED_STEP
    /\ progress' = progress - UPLOADED_STEP
    /\ ri' = ri + 1

\* lines 229-235: the bar is topped up and the local loop is set up
StartLocal ==
    /\ pbar' = Reconciled(pbar, progress)
    /\ progress' = DOC_UNIT * Len(local_documents)
    /\ current_batch_size' = 0
    /\ local_batch' = <<>>
    /\ li' = 1
    /\ pc' = "local_loop"

RemoteIter ==
    /\ pc = "remote_loop"
    /\ ri <= Len(remote_documents)
    /\ IF SealsRemoteBatch(Len(remote_batch), n)
       THEN /\ dispatched' = Append(dispatched, BatchLog("remote", remote_batch, 0))
            /\ Register(remote_batch, "remote_seal")
            /\ UNCHANGED <<callVars, loopVars, uploadVars, progress, pbar>>
       ELSE /\ AppendRemote
            /\ UNCHANGED <<pc, ret, callVars, local_batch, current_batch_size, li,
                           uploadVars, monitorVars, endVars, registered, dispatched>>

\* mutant: the last remote batch is not flushed before the local loop
RemoteEnd_NoFlush ==
    /\ pc = "remote_loop"
    /\ ri > Len(remote_documents)
    /\ StartLocal
    /\ UNCHANGED <<ret, callVars, remote_batch, ri, uploadVars, monitorVars,
                   endVars, registered, dispatched>>

RemoteEnd ==
    /\ pc = "remote_loop"
    /\ ri > Len(remote_documents)
    /\ IF remote_batch # <<>>
       THEN /\ dispatched' = Append(dispatched, BatchLog("remote", remote_batch, 0))
            /\ Register(remote_batch, "remote_final")
            /\ UNCHANGED <<callVars, loopVars, uploadVars, progress, pbar>>
       ELSE /\ StartLocal
            /\ UNCHANGED <<ret, callVars, remote_batch, ri, uploadVars, monitorVars,
                           endVars, registered, dispatched>>

\* ------------------------------------------------------------------------
\* GroundX.ingest, synchronous mode: the loop over local_documents
\* ------------------------------------------------------------------------
\* local_batch.append(ld); current_batch_size += file_size
AppendLocal(batch, bytes, item) ==
    /\ local_batch' = Append(batch, item)
    /\ current_batch_size' = bytes + item.doc.size
    /\ li' = li + 1

\* lines 264-267: the bar is topped up and the latest snapshot returned
FinishIngest ==
    /\ pbar' = Reconciled(pbar, progress)
    /\ Return(ingest)

LocalIter ==
    /\ pc = "local_loop"
    /\ li <= Len(local_documents)
    /\ LET ld == local_documents[li]
       IN  IF SealsBatch(current_batch_size, ld.doc.size, Len(local_batch), n)
           THEN /\ dispatched' =
                      Append(dispatched, BatchLog("local", local_batch, current_batch_size))
                /\ EnterUploads(Fragments(local_batch, 1), "local_seal")
                /\ UNCHANGED <<callVars, loopVars, monitorVars, endVars, progress,
                               pbar, registered>>
           ELSE /\ AppendLocal(local_batch, current_batch_size, ld)
                /\ UNCHANGED <<pc, ret, callVars, remote_batch, ri, uploadVars,
                               monitorVars, endVars, progress, pbar, registered,
                               dispatched>>

LocalEnd ==
    /\ pc = "local_loop"
    /\ li > Len(local_documents)
    /\ IF local_batch # <<>>
       THEN /\ dispatched' =
                  Append(dispatched, BatchLog("local", local_batch, current_batch_size))
            /\ EnterUploads(Fragments(local_batch, 1), "local_final")
            /\ UNCHANGED <<callVars, loopVars, monitorVars, endVars, progress, pbar,
                           registered>>
       ELSE /\ FinishIngest
            /\ UNCHANGED <<ret, callVars, loopVars, uploadVars, monitorVars, progress,
                           registered, dispatched>>

\* ------------------------------------------------------------------------
\* _process_local, _upload_file_batch and the loop of AsyncGroundX.ingest:
\* one _upload_file call per step
\* ------------------------------------------------------------------------
\* if progress is not None and pbar is not None (the non-blocking call and
\* AsyncGroundX.ingest pass no bar)
TracksProgress(r) == r \notin {"nonblocking", "async"}

UploadFile ==
    /\ pc = "process_local"
    /\ pl_i <= Len(pl_frags)
    /\ \E info \in PresignAnswers :
       \E readable \in FileReads(info) :
       \E status_code \in PutAnswers(info, readable) :
        LET sd == pl_frags[pl_i]
            up == upload_file(info, readable, status_code)
        IN  /\ uploads' = Append(uploads, [idx |-> sd.idx, frag |-> sd.frag])
            /\ transfers' = transfers + (IF up.put THEN 1 ELSE 0)
            /\ last_upload' = UploadLog(info, readable, up, status_code)
            /\ IF up.ok
               THEN /\ up_docs' = Append(up_docs, UploadedRecord(sd.idx, sd.frag, up.url))
                    /\ pl_i' = pl_i + 1
                    /\ IF TracksProgress(ret)
                       THEN /\ pbar' = pbar + UPLOADED_STEP
                            /\ progress' = progress - UPLOADED_STEP
                       ELSE UNCHANGED <<pbar, progress>>
                    /\ UNCHANGED <<pc, endVars>>
               ELSE /\ Raise(up.error)
                    /\ UNCHANGED <<up_docs, pl_i, pbar, progress>>
    /\ UNCHANGED <<ret, callVars, loopVars, pl_frags, monitorVars, registered, dispatched>>

\* _process_local has returned up_docs to the synchronous loop: the batch is
\* registered and monitored
ProcessLocalReturn ==
    /\ pc = "process_local"
    /\ pl_i > Len(pl_frags)
    /\ ret \in {"local_seal", "local_final"}
    /\ Register(up_docs, ret)
    /\ last_upload' = NoUpload
    /\ UNCHANGED <<callVars, loopVars, pl_frags, pl_i, up_docs, uploads, transfers,
                   progress, pbar, dispatched>>

\* mutant: the uploaded records are put before the remote ones
RegisterAll_LocalFirst ==
    /\ pc = "process_local"
    /\ pl_i > Len(pl_frags)
    /\ ret \in {"nonblocking", "async"}
    /\ remote_documents' = up_docs \o remote_documents
    /\ registered' = Append(registered, remote_documents')
    /\ \E status \in RegistrationStatuses :
         LET job == Snapshot(Len(registered) + 1, status, NoProgress)
         IN  /\ Return(job)
             /\ answered' = job
             /\ UNCHANGED <<ingest, completed_files, observed, counted>>
    /\ UNCHANGED <<ret, mode, n, local_documents, files, call, loopVars, uploadVars,
                   progress, pbar, dispatched>>

\* lines 272-278 (and 619-622): remote_documents.extend(up_docs);
\* return ingest_remote(documents=remote_documents)
RegisterAll ==
    /\ pc = "process_local"
    /\ pl_i > Len(pl_frags)
    /\ ret \in {"nonblocking", "async"}
    /\ remote_documents' = remote_documents \o up_docs
    /\ registered' = Append(registered, remote_documents')
    /\ \/ /\ Raise(Err("ApiError", "ingest_remote"))
          /\ UNCHANGED monitorVars
       \/ \E status \in RegistrationStatuses :
            LET job == Snapshot(Len(registered) + 1, status, NoProgress)
            IN  /\ Return(job)
                /\ answered' = job
                /\ UNCHANGED <<ingest, completed_files, observed, counted>>
    /\ UNCHANGED <<ret, mode, n, local_documents, files, call, loopVars, uploadVars,
                   progress, pbar, dispatched>>

\* ------------------------------------------------------------------------
\* _monitor_batch: one poll per step, then the return or the raise
\* ------------------------------------------------------------------------
\* the answers get_processing_status_by_id may give to the next poll
PollAnswers ==
    LET all == IF mode = "monitor" THEN JobStatuses ELSE PollStatuses
        statuses == IF Len(observed) >= MaxPolls THEN all \cap TerminalStatuses ELSE all
        progresses == IF mode = "monitor" THEN MonitorProgresses
                      ELSE BatchProgresses(Len(registered[Len(registered)]))
    IN  {Snapshot(ingest.process_id, st, p) : st \in statuses, p \in progresses}

MonitorPoll ==
    /\ pc = "monitor"
    /\ KeepsPolling(ingest.status)
    /\ \/ /\ Raise(Err("ApiError", "get_processing_status_by_id"))
          /\ observed' = Append(observed, "failed")
          /\ UNCHANGED <<ingest, answered, completed_files, counted, progress, pbar>>
       \/ \E answer \in PollAnswers :
            LET st == ScanProgress(NextSnapshot(ingest, answer).progress,
                                   [completed |-> completed_files, progress |-> progress,
                                    pbar |-> pbar, counted |-> counted])
            IN  /\ ingest' = NextSnapshot(ingest, answer)
                /\ answered' = answer
                /\ observed' = Append(observed, answer.status)
                /\ completed_files' = st.completed
                /\ progress' = st.progress
                /\ pbar' = st.pbar
                /\ counted' = st.counted
                /\ UNCHANGED <<pc, endVars>>
    /\ UNCHANGED <<ret, callVars, loopVars, uploadVars, registered, dispatched>>

\* _upload_file_batch after its _monitor_batch: if progress > 0: pbar.update
\* and, back in ingest_directory, the next file starts a new batch
AfterDirBatch ==
    /\ pbar' = Reconciled(pbar, progress)
    /\ IF ret = "dir_seal"
       THEN /\ AppendLocal(<<>>, 0, files[li])
            /\ pc' = "dir_loop"
            /\ UNCHANGED endVars
       ELSE /\ Return(NoneResult)
            /\ UNCHANGED <<local_batch, current_batch_size, li>>

MonitorExit ==
    /\ pc = "monitor"
    /\ ~KeepsPolling(ingest.status)
    /\ IF MonitorRaises(ingest.status)
       THEN /\ Raise(Err("ValueError", ingest.status))
            /\ UNCHANGED <<loopVars, progress, pbar>>
       ELSE CASE ret = "remote_seal" ->
                 \* remote_batch = []; then the rest of the loop body
                 /\ remote_batch' = <<remote_documents[ri]>>
                 /\ pbar' = pbar + UPLOADED_STEP
                 /\ progress' = progress - UPLOADED_STEP
                 /\ ri' = ri + 1
                 /\ pc' = "remote_loop"
                 /\ UNCHANGED <<local_batch, current_batch_size, li, endVars>>
              [] ret = "remote_final" ->
                 /\ StartLocal
                 /\ UNCHANGED <<remote_batch, ri, endVars>>
              [] ret = "local_seal" ->
                 \* local_batch = []; current_batch_size = 0; then the append
                 /\ AppendLocal(<<>>, 0, local_documents[li])
                 /\ pc' = "local_loop"
                 /\ UNCHANGED <<remote_batch, ri, endVars, progress, pbar>>
              [] ret = "local_final" ->
                 /\ FinishIngest
                 /\ UNCHANGED <<loopVars, progress>>
              [] ret \in {"dir_seal", "dir_final"} ->
                 /\ AfterDirBatch
                 /\ UNCHANGED <<remote_batch, ri, progress>>
              [] OTHER ->
                 \* a job monitored on its own: return ingest, progress
                 /\ Return(ingest)
                 /\ UNCHANGED <<loopVars, progress, pbar>>
    \* completed_files and the logs of this _monitor_batch end with it
    /\ completed_files' = {}
    /\ observed' = <<>>
    /\ counted' = NoCounts
    /\ UNCHANGED <<ret, callVars, uploadVars, ingest, answered, registered, dispatched>>

\* ------------------------------------------------------------------------
\* GroundX.ingest_directory and _upload_file_batch
\* ------------------------------------------------------------------------
\* load_directory_files: for file in rglob("*"): for sd in split_doc(file)
load_directory_files(entries) ==
    Fragments([i \in 1..Len(entries) |-> LocalDoc(i, entries[i])], 1)

\* _upload_file_batch(bucket_id, current_batch, ...) is entered
EnterUploadBatch(r) ==
    /\ dispatched' = Append(dispatched, BatchLog("directory", local_batch, current_batch_size))
    /\ progress' = DOC_UNIT * Len(local_batch)
    /\ EnterUploads(local_batch, r)

IngestDirectoryCall ==
    /\ pc = "idle"
    /\ \E bucket_id \in {0, 1}, is_dir \in BOOLEAN, entries \in DirLists,
          batch_size \in BatchSizes :
        /\ call' = CallOf("ingest_directory", entries, TRUE)
        /\ IF bucket_id < 1 \/ ~is_dir \/ Len(load_directory_files(entries)) < 1
           THEN /\ Raise(IF bucket_id < 1 THEN InvalidBucketError
                         ELSE IF ~is_dir THEN InvalidDirectoryError
                         ELSE NoSupportedFilesError)
                /\ UNCHANGED <<setupVars, loopVars>>
           ELSE /\ mode' = "directory"
                /\ n' = EffectiveBatchSize(batch_size)
                /\ files' = load_directory_files(entries)
                /\ local_batch' = <<>>
                /\ current_batch_size' = 0
                /\ li' = 1
                /\ pc' = "dir_loop"
                /\ UNCHANGED <<remote_documents, local_documents, remote_batch, ri, endVars>>
    /\ UNCHANGED <<ret, uploadVars, monitorVars, progress, pbar, registered, dispatched>>

DirIter ==
    /\ pc = "dir_loop"
    /\ li <= Len(files)
    /\ IF SealsBatch(current_batch_size, files[li].doc.size, Len(local_batch), n)
       THEN /\ EnterUploadBatch("dir_seal")
            /\ UNCHANGED <<loopVars, endVars, pbar>>
       ELSE /\ AppendLocal(local_batch, current_batch_size, files[li])
            /\ UNCHANGED <<pc, ret, remote_batch, ri, uploadVars, endVars, progress,
                           pbar, dispatched>>
    /\ UNCHANGED <<callVars, monitorVars, registered>>

DirEnd ==
    /\ pc = "dir_loop"
    /\ li > Len(files)
    /\ IF local_batch # <<>>
       THEN /\ EnterUploadBatch("dir_final")
            /\ UNCHANGED <<endVars, pbar>>
       ELSE /\ Return(NoneResult)
            /\ UNCHANGED <<ret, uploadVars, progress, pbar, dispatched>>
    /\ UNCHANGED <<callVars, loopVars, monitorVars, registered>>

\* _upload_file_batch after its uploads: if docs: ingest = self.ingest(
\* documents=docs) (the non-blocking call: every document is a URL, nothing
\* is uploaded, one registration), then _monitor_batch
UploadBatchReturn ==
    /\ pc = "process_local"
    /\ pl_i > Len(pl_frags)
    /\ ret \in {"dir_seal", "dir_final"}
    /\ IF up_docs = <<>>
       THEN /\ AfterDirBatch
            /\ UNCHANGED <<ret, remote_batch, ri, monitorVars, progress, registered>>
       ELSE IF (\E i \in 1..Len(up_docs) : ~is_valid_url(up_docs[i].source_url))
               \/ TooManyDocuments(up_docs, <<>>)
       THEN /\ Raise(IF \A i \in 1..Len(up_docs) : is_valid_url(up_docs[i].source_url)
                     THEN TooManyDocumentsError
                     ELSE InvalidPathError(
                              up_docs[CHOOSE i \in 1..Len(up_docs) :
                                         /\ ~is_valid_url(up_docs[i].source_url)
                                         /\ \A j \in 1..(i - 1) :
                                                is_valid_url(up_docs[j].source_url)].source_url))
            /\ UNCHANGED <<ret, loopVars, monitorVars, progress, pbar, registered>>
       ELSE /\ Register(up_docs, ret)
            /\ UNCHANGED <<loopVars, progress, pbar>>
    /\ last_upload' = NoUpload
    /\ UNCHANGED <<callVars, pl_frags, pl_i, up_docs, uploads, transfers, dispatched>>

\* ------------------------------------------------------------------------
\* AsyncGroundX.ingest: from the call to its upload loop
\* ------------------------------------------------------------------------
AsyncIngestCall ==
    /\ pc = "idle"
    /\ \E documents \in ShortLists \cup LongLists :
        LET prep == prep_documents(documents)
        IN  /\ call' = CallOf("async_ingest", documents, FALSE)
            /\ IF ~prep.ok
               THEN /\ Raise(prep.error)
                    /\ UNCHANGED <<ret, setupVars, uploadVars>>
               ELSE IF TooManyDocuments(prep.remote, prep.local)
               THEN /\ Raise(TooManyDocumentsError)
                    /\ UNCHANGED <<ret, setupVars, uploadVars>>
               ELSE IF Len(prep.remote) + Len(prep.local) = 0
               THEN /\ Raise(NoValidDocumentsError)
                    /\ UNCHANGED <<ret, setupVars, uploadVars>>
               ELSE /\ mode' = "async"
                    /\ remote_documents' = prep.remote
                    /\ local_documents' = prep.local
                    /\ EnterUploads(Fragments(prep.local, 1), "async")
                    /\ UNCHANGED <<n, files, endVars>>
    /\ UNCHANGED <<loopVars, monitorVars, progress, pbar, registered, dispatched>>

\* ------------------------------------------------------------------------
\* CSVSplitter(filepath).split() called on its own
\* ------------------------------------------------------------------------
\* Delimited files, comma- and tab-separated: up to MaxRows lines after the
\* header and files of 1000, 1999 and 2001 lines, of a size below and above
\* the sizes at which determine_splits changes; one quoted field may span two
\* lines.
SplitSizes == {20000, MiB, 2 * MiB + 1, 5 * MiB}
SplitLineCounts ==
    (0..MaxRows) \cup {ROWS_PER_SPLIT, 2 * ROWS_PER_SPLIT - 1, 2 * ROWS_PER_SPLIT + 1}
SplitSources == {<<"/data/b.csv", ".csv">>, <<"/data/t.tsv", ".tsv">>}
SplitInputs ==
    UNION {{Csv(Doc(Url("", "", src[1], ""), TRUE, TRUE, src[2], size, lines),
                lines - multi) :
                src \in SplitSources, size \in SplitSizes,
                multi \in {m \in {0, 1} : m <= lines}} :
           lines \in SplitLineCounts}

SplitInit ==
    /\ pc = "split"
    /\ ret = "none"
    /\ mode = "split"
    /\ n = 0
    /\ remote_documents = <<>>
    /\ local_documents = <<>>
    /\ files = <<>>
    /\ remote_batch = <<>>
    /\ local_batch = <<>>
    /\ current_batch_size = 0
    /\ ri = 1
    /\ li = 1
    /\ pl_frags = <<>>
    /\ pl_i = 1
    /\ up_docs = <<>>
    /\ progress = 0
    /\ pbar = 0
    /\ ingest = InitialIngest
    /\ completed_files = {}
    /\ outcome = "running"
    /\ error = NoError
    /\ result = NoneResult
    /\ registered = <<>>
    /\ uploads = <<>>
    /\ transfers = 0
    /\ dispatched = <<>>
    /\ observed = <<>>
    /\ answered = InitialIngest
    /\ counted = NoCounts
    /\ call \in {CallOf(api, <<f>>, FALSE) :
                    api \in {"split", "determine_splits"}, f \in SplitInputs}
    /\ last_upload = NoUpload

\* split() runs and returns the list of paths: files holds what they contain
SplitCall ==
    /\ pc = "split"
    /\ call.api = "split"
    /\ files' = split_contents(call.documents[1])
    /\ Return(split_paths(call.documents[1]))
    /\ UNCHANGED <<ret, mode, n, remote_documents, local_documents, call, loopVars,
                   uploadVars, monitorVars, progress, pbar, registered, dispatched>>

\* determine_splits() runs and returns the split factor
DetermineSplitsCall ==
    /\ pc = "split"
    /\ call.api = "determine_splits"
    /\ Return(determine_splits(call.documents[1].doc.rows, call.documents[1].doc.size))
    /\ UNCHANGED <<ret, mode, n, remote_documents, local_documents, files, call,
                   loopVars, uploadVars, monitorVars, progress, pbar, registered,
                   dispatched>>

SplitNext == SplitCall \/ DetermineSplitsCall

SplitSpec == SplitInit /\ [][SplitNext]_vars

\* ------------------------------------------------------------------------
\* The batch size of ingest (wait_for_complete) and ingest_directory on its
\* own: the call is made with a batch_size, and n is computed from it.
\* ------------------------------------------------------------------------
RequestedSizes == {NoneSize} \cup {IntSize(v) : v \in (0 - MaxRequest)..MaxRequest}

BatchSizeCallOf(api, batch_size) ==
    [api |-> api, documents |-> <<>>, wait_for_complete |-> TRUE,
     batch_size |-> batch_size]

BatchSizeInit ==
    /\ pc = "batch_size"
    /\ ret = "none"
    /\ mode \in {"sync", "directory"}
    /\ n = 0
    /\ remote_documents = <<>>
    /\ local_documents = <<>>
    /\ files = <<>>
    /\ remote_batch = <<>>
    /\ local_batch = <<>>
    /\ current_batch_size = 0
    /\ ri = 1
    /\ li = 1
    /\ pl_frags = <<>>
    /\ pl_i = 1
    /\ up_docs = <<>>
    /\ progress = 0
    /\ pbar = 0
    /\ ingest = InitialIngest
    /\ completed_files = {}
    /\ outcome = "running"
    /\ error = NoError
    /\ result = NoneResult
    /\ registered = <<>>
    /\ uploads = <<>>
    /\ transfers = 0
    /\ dispatched = <<>>
    /\ observed = <<>>
    /\ answered = InitialIngest
    /\ counted = NoCounts
    /\ call \in {BatchSizeCallOf(IF mode = "sync" THEN "ingest" ELSE "ingest_directory", b) :
                    b \in RequestedSizes}
    /\ last_upload = NoUpload

\* n = max(MIN_BATCH_SIZE, min(batch_size or MIN_BATCH_SIZE, MAX_BATCH_SIZE))
ComputeBatchSize ==
    /\ pc = "batch_size"
    /\ n' = EffectiveBatchSize(call.batch_size)
    /\ pc' = "batched"
    /\ UNCHANGED <<ret, mode, remote_documents, local_documents, files, call, loopVars,
                   uploadVars, monitorVars, endVars, progress, pbar, registered,
                   dispatched>>

BatchSizeNext == ComputeBatchSize

BatchSizeSpec == BatchSizeInit /\ [][BatchSizeNext]_vars

\* ------------------------------------------------------------------------
\* Specifications
\* ------------------------------------------------------------------------
Next ==
    \/ IngestCall
    \/ AsyncIngestCall
    \/ IngestDirectoryCall
    \/ RemoteIter
    \/ RemoteEnd
    \/ LocalIter
    \/ LocalEnd
    \/ UploadFile
    \/ ProcessLocalReturn
    \/ RegisterAll
    \/ DirIter
    \/ DirEnd
    \/ UploadBatchReturn
    \/ MonitorPoll
    \/ MonitorExit

Spec == Init /\ [][Next]_vars

\* _monitor_batch(ingest, progress, pbar) called on its own with the answer
\* of a registration
MonitorInit ==
    /\ pc = "monitor"
    /\ ret = "monitor"
    /\ mode = "monitor"
    /\ n = 0
    /\ remote_documents = <<>>
    /\ local_documents = <<>>
    /\ files = <<>>
    /\ remote_batch = <<>>
    /\ local_batch = <<>>
    /\ current_batch_size = 0
    /\ ri = 1
    /\ li = 1
    /\ pl_frags = <<>>
    /\ pl_i = 1
    /\ up_docs = <<>>
    /\ progress \in {DOC_UNIT, 2 * DOC_UNIT}
    /\ pbar = 0
    /\ ingest \in {Snapshot(1, st, NoProgress) : st \in JobStatuses}
    /\ completed_files = {}
    /\ outcome = "running"
    /\ error = NoError
    /\ result = NoneResult
    /\ registered = << <<>> >>
    /\ uploads = <<>>
    /\ transfers = 0
    /\ dispatched = <<>>
    /\ observed = <<ingest.status>>
    /\ answered = ingest
    /\ counted = NoCounts
    /\ call = NoCall
    /\ last_upload = NoUpload

MonitorNext == MonitorPoll \/ MonitorExit

MonitorSpec == MonitorInit /\ [][MonitorNext]_vars

\* the calling thread runs the loop without interruption: a poll or the exit
\* that can be taken is taken
FairMonitorSpec == MonitorSpec /\ WF_vars(MonitorNext)

\* ========================================================================
\* Properties
\* ========================================================================
LocalReturns == {"local_seal", "local_final", "dir_seal", "dir_final"}
LastBatch == dispatched[Len(dispatched)]
Monitored == call.api = "ingest_directory" \/ (call.api = "ingest" /\ call.wait_for_complete)
NonMonitored == call.api = "async_ingest" \/ (call.api = "ingest" /\ ~call.wait_for_complete)

\* C1: in synchronous ingest and in ingest_directory, every batch of local
\* files that has been uploaded and registered has a cumulative file size of
\* at most MAX_BATCH_SIZE_BYTES.  (Violated: a single file larger than the
\* cap is appended to the fresh batch and dispatched.)
C1_DispatchedBytesBounded ==
    (Monitored /\ pc = "monitor" /\ ret \in LocalReturns)
        => LastBatch.bytes <= MAX_BATCH_SIZE_BYTES

\* C2: every batch dispatched by synchronous ingest (remote and local) and
\* by ingest_directory holds at most n documents/files, n the effective
\* batch size, and n <= MAX_BATCH_SIZE.
C2_BatchCountBounded ==
    Monitored =>
        \A i \in 1..Len(dispatched) :
            Len(dispatched[i].docs) <= n /\ n <= MAX_BATCH_SIZE

\* a full batch of MAX_BATCH_SIZE documents was sealed by the count test and
\* the rest dispatched after it
C2_Witness ==
    /\ Monitored
    /\ n = MAX_BATCH_SIZE
    /\ Len(dispatched) = 2
    /\ Len(dispatched[1].docs) = MAX_BATCH_SIZE

\* C3: every ingest_remote call made by synchronous ingest carries at least
\* MIN_BATCH_SIZE documents.  (Violated: a first file larger than
\* MAX_BATCH_SIZE_BYTES seals the still empty batch, which is registered.)
C3_RegistrationNonEmpty ==
    (call.api = "ingest" /\ call.wait_for_complete)
        => \A i \in 1..Len(registered) : Len(registered[i]) >= MIN_BATCH_SIZE

\* the latest registered job has not been seen in a terminal status
JobPending ==
    /\ registered # <<>>
    /\ answered.process_id = Len(registered)
    /\ answered.status \notin TerminalStatuses

C4_Step ==
    (Monitored /\ (Len(uploads') > Len(uploads) \/ Len(registered') > Len(registered)))
        => ~JobPending

\* C4: in synchronous ingest and ingest_directory no upload (with its presign
\* request) and no registration happens while the job registered last has
\* not been observed in a terminal status: one job in flight at most.
C4_OneJobAtATime == [][C4_Step]_vars

\* a second batch is being monitored after polls of the first
C4_Witness ==
    /\ Monitored
    /\ Len(registered) = 2
    /\ Len(uploads) >= 2
    /\ pc = "monitor"
    /\ Len(observed) >= 2

IsRegistered(r) ==
    \E j \in 1..Len(registered) : \E k \in 1..Len(registered[j]) : registered[j][k] = r

AllRemoteRegistered ==
    \A i \in 1..Len(remote_documents) :
        remote_documents[i].origin = "remote" => IsRegistered(remote_documents[i])

\* C5 as stated: in either mode, once an upload of a local document has
\* begun every remote document has been registered.
C5_RemoteBeforeUploadAnyMode ==
    (call.api \in {"ingest", "async_ingest"} /\ uploads # <<>>) => AllRemoteRegistered

\* C5 as amended: in synchronous mode every remote document is registered
\* before the first upload; in non-blocking mode (and AsyncGroundX.ingest)
\* the single registration is made after all uploads.
C5_RemoteBeforeUploadWhenSync ==
    /\ (call.api = "ingest" /\ call.wait_for_complete /\ uploads # <<>>)
           => AllRemoteRegistered
    /\ (NonMonitored /\ registered # <<>>)
           => (pl_i > Len(pl_frags) /\ Len(registered) = 1 /\ pc = "done")

\* synchronous call with remote and local documents, an upload made
C5_Witness ==
    /\ call.api = "ingest"
    /\ call.wait_for_complete
    /\ remote_documents # <<>>
    /\ uploads # <<>>

\* C6: within one _monitor_batch every document_id causes at most one
\* progress increment of 0.75, whatever the poll answers repeat.
C6_CountedOnce ==
    /\ \A d \in DOMAIN counted : counted[d] <= 1
    /\ (mode = "monitor" /\ pc = "monitor")
           => /\ DOMAIN counted = completed_files
              /\ pbar = COMPLETED_STEP * Cardinality(completed_files)

\* the second poll lists document 1 as complete in two sub-groups and it has
\* been counted once
C6_Witness ==
    /\ mode = "monitor"
    /\ pc = "monitor"
    /\ Len(observed) = 3
    /\ answered.progress.processing = <<Entry(1, "complete")>>
    /\ answered.progress.complete = <<Entry(1, "complete")>>
    /\ CountOf(counted, 1) = 1
    /\ pbar = COMPLETED_STEP

C7_NoPollAfterTerminal ==
    pc = "monitor" =>
        \A i \in 1..(Len(observed) - 1) : observed[i] \notin TerminalStatuses

C7_Step ==
    /\ (pc = "monitor" /\ Len(observed') > Len(observed))
           => observed[Len(observed)] \notin TerminalStatuses
    /\ (pc = "monitor" /\ pc' = "done" /\ error'.kind # "ApiError")
           => observed[Len(observed)] \in TerminalStatuses

\* C7: a poll is made only after a non-terminal status (none when the
\* registration answer is terminal), the monitor leaves only at a terminal
\* status, so the first terminal answer is the last poll; and the monitored
\* call ends once the backend answers a terminal status.
C7_PollsUntilTerminal ==
    [](C7_NoPollAfterTerminal) /\ [][C7_Step]_vars /\ <>(pc = "done")

\* queued at registration, processing at the first poll, complete at the
\* second: two polls made
C7_Witness ==
    /\ mode = "monitor"
    /\ pc = "monitor"
    /\ observed = <<"queued", "processing", "complete">>

\* C8: when the monitored job ends in a terminal status, error or cancelled
\* raise an error naming the status and complete returns the last answer of
\* the backend as it was given.
C8_OutcomeByStatus ==
    (mode = "monitor" /\ pc = "done" /\ error.kind # "ApiError")
        => /\ answered.status \in TerminalStatuses
           /\ answered.status \in {"error", "cancelled"}
                  => (outcome = "raised" /\ error = Err("ValueError", answered.status))
           /\ answered.status = "complete"
                  => (outcome = "returned" /\ result = answered)

\* a job cancelled at a poll made the call raise
C8_Witness ==
    /\ mode = "monitor"
    /\ pc = "done"
    /\ outcome = "raised"
    /\ answered.status = "cancelled"
    /\ answered.progress.present

\* C9: a non-monitored call (wait_for_complete=False, or AsyncGroundX.ingest)
\* with more than MAX_BATCH_SIZE documents fails with a validation error
\* and makes no presign request, no upload and no registration.
C9_TooManyFailsEarly ==
    (NonMonitored /\ Len(call.documents) > MAX_BATCH_SIZE)
        => /\ pc = "done"
           /\ outcome = "raised"
           /\ error.kind = "ValueError"
           /\ registered = <<>>
           /\ uploads = <<>>
           /\ transfers = 0

\* MAX_BATCH_SIZE remote documents and a local one, not monitored
C9_Witness ==
    /\ NonMonitored
    /\ Len(call.documents) = MAX_BATCH_SIZE + 1
    /\ call.documents[MAX_BATCH_SIZE + 1] = TxtDoc
    /\ pc = "done"

Precedes(a, b) == a.idx < b.idx \/ (a.idx = b.idx /\ a.frag < b.frag)

\* remote records first, each group in input order
RemoteThenLocalInOrder(recs) ==
    \A p \in 1..Len(recs) : \A q \in 1..Len(recs) :
        p < q => /\ ~(recs[p].origin = "local" /\ recs[q].origin = "remote")
                 /\ recs[p].origin = recs[q].origin => Precedes(recs[p], recs[q])

\* the records are those of the URLs of the input and of the uploads made
CoversInput(recs) ==
    /\ {recs[p].idx : p \in {x \in 1..Len(recs) : recs[x].origin = "remote"}}
         = {i \in 1..Len(call.documents) : is_valid_url(call.documents[i].file_path)}
    /\ {<<recs[p].idx, recs[p].frag>> : p \in {x \in 1..Len(recs) : recs[x].origin = "local"}}
         = {<<uploads[u].idx, uploads[u].frag>> : u \in 1..Len(uploads)}
    /\ \A p \in 1..Len(recs) :
         recs[p].origin = "remote"
             => recs[p].source_url = call.documents[recs[p].idx].file_path

\* C10: a successful non-blocking ingest has made exactly one registration
\* and no poll; the registration was made after every upload and carries the
\* remote records in input order followed by the records of the uploaded
\* files in input order; the caller gets the registration answer unchanged.
C10_SingleRegistration ==
    (call.api = "ingest" /\ ~call.wait_for_complete /\ outcome = "returned")
        => /\ Len(registered) = 1
           /\ observed = <<>>
           /\ ingest = InitialIngest
           /\ Len(uploads) = Len(Fragments(local_documents, 1))
           /\ RemoteThenLocalInOrder(registered[1])
           /\ CoversInput(registered[1])
           /\ result = answered
           /\ result.process_id = 1

\* a remote document and a delimited file split in two: three records
C10_Witness ==
    /\ call.api = "ingest"
    /\ ~call.wait_for_complete
    /\ outcome = "returned"
    /\ Len(registered[1]) = 3
    /\ registered[1][1].origin = "remote"
    /\ registered[1][3].origin = "local"

SyncCall == call.api = "ingest" /\ call.wait_for_complete

\* C11: when a synchronous ingest returns successfully, the increments
\* reported to the progress bar add up to the number of input documents, the
\* total of the bar.  (Violated: every fragment of a split file adds 0.25 at
\* its upload and 0.75 at its completion, while the file counts as one.)
C11_ProgressSumsToTotal ==
    (SyncCall /\ outcome = "returned") => pbar = DOC_UNIT * Len(call.documents)

CallFailed == pc = "done" /\ outcome = "raised"

C12_Step ==
    SyncCall =>
        \* an ended call takes no further step
        /\ outcome = "running"
        \* the bar never goes back
        /\ pbar' >= pbar
        \* a failed upload, a failed registration, a failed poll end the call
        /\ (Len(uploads') > Len(uploads) /\ up_docs' = up_docs) => CallFailed'
        /\ (Len(registered') > Len(registered) /\ answered' = answered) => CallFailed'
        /\ (Len(observed') > Len(observed) /\ observed'[Len(observed')] = "failed")
               => CallFailed'
        \* a job seen in error or cancelled ends the call with no further
        \* upload, registration or poll
        /\ (pc = "monitor" /\ ingest.status \in {"error", "cancelled"})
               => /\ CallFailed'
                  /\ uploads' = uploads
                  /\ registered' = registered
                  /\ Len(observed') <= Len(observed)
        \* no file is uploaded twice
        /\ Len(uploads') > Len(uploads)
               => \A u \in 1..Len(uploads) : uploads[u] # uploads'[Len(uploads')]

\* C12: in synchronous mode a failure of a batch (upload, registration, poll,
\* job in error or cancelled) ends the ingest call there: no later batch is
\* uploaded, registered or polled, nothing is retried, and the progress
\* reported so far is kept.
C12_FailureStopsCall == [][C12_Step]_vars

\* the job of the first of two local batches was cancelled: the call has
\* raised with the second document still to come and its progress kept
C12_Witness ==
    /\ SyncCall
    /\ outcome = "raised"
    /\ error = Err("ValueError", "cancelled")
    /\ Len(registered) = 1
    /\ li <= Len(local_documents)
    /\ pbar > 0

\* C13: the binary upload succeeds for every 2xx status of the PUT and fails
\* for every other status.  (Violated: only 200 and 201 are accepted, a 204
\* makes _upload_file raise.)
C13_UploadSucceedsOn2xx ==
    last_upload.put => (last_upload.ok <=> last_upload.status_code \in 200..299)

\* the latest _upload_file call got a presigned descriptor that declares a
\* method other than PUT
DeclaresNonPut ==
    /\ last_upload.called
    /\ last_upload.Method # "absent"
    /\ Upper(last_upload.Method) # "PUT"

\* the file of the latest _upload_file call has no record, neither among the
\* records of the running upload loop nor in a registration
LastUploadUnrecorded ==
    LET f == uploads[Len(uploads)]
        IsOf(r) == r.origin = "local" /\ r.idx = f.idx /\ r.frag = f.frag
    IN  /\ \A k \in 1..Len(up_docs) : ~IsOf(up_docs[k])
        /\ \A j \in 1..Len(registered) : \A k \in 1..Len(registered[j]) :
               ~IsOf(registered[j][k])

\* C14 as stated: a declared method other than PUT makes the upload fail with
\* the unsupported-method error, without a transfer, a returned URL or a
\* record.  (Violated: the file is read before the method is looked at, and
\* an unreadable file fails with the file-read error instead.)
C14_NonPutFailsAsUnsupported ==
    DeclaresNonPut
        => /\ CallFailed
           /\ error = Err("ValueError", "method")
           /\ ~last_upload.put
           /\ ~last_upload.ok
           /\ LastUploadUnrecorded

\* C14 as amended: the upload fails without a transfer, a returned URL or a
\* record; the error is the unsupported-method error when the file could be
\* read and the file-read error when it could not.
C14_NonPutNeverTransfers ==
    DeclaresNonPut
        => /\ CallFailed
           /\ error = (IF last_upload.read THEN Err("ValueError", "method")
                                          ELSE Err("ValueError", "read"))
           /\ ~last_upload.put
           /\ ~last_upload.ok
           /\ LastUploadUnrecorded

\* after a successful upload, the descriptor of the next file declared POST
C14_Witness ==
    /\ DeclaresNonPut
    /\ last_upload.read
    /\ error = Err("ValueError", "method")
    /\ Len(uploads) = 2
    /\ Len(up_docs) = 1

\* scheme, network location and path of a URL, nothing else
BareUrl(u) == Url(u.scheme, u.netloc, u.path, "")

\* C15: every registered record of a previously local file has as source_url
\* the presigned upload URL reduced to scheme, host and path (no query, no
\* params, no fragment), and the record made of the latest successful upload
\* has exactly that URL; records of remote documents carry the path of the
\* input unchanged.
C15_RegisteredUrlsUnsigned ==
    /\ \A j \in 1..Len(registered) : \A k \in 1..Len(registered[j]) :
         LET r == registered[j][k]
         IN  /\ r.origin = "local"
                    => /\ r.source_url.query = ""
                       /\ r.source_url.params = ""
                       /\ r.source_url.fragment = ""
                       /\ r.source_url \in {BareUrl(u) : u \in PresignedUrls}
             /\ r.origin = "remote"
                    => r.source_url = call.documents[r.idx].file_path
    /\ last_upload.ok
           => /\ up_docs # <<>>
              /\ up_docs[Len(up_docs)].source_url = BareUrl(last_upload.URL)

\* a remote document with a query in its URL and a file uploaded to a signed
\* URL with params, query and fragment have been registered together
C15_Witness ==
    /\ Len(registered) = 1
    /\ Len(registered[1]) = 2
    /\ registered[1][1].origin = "remote"
    /\ registered[1][1].source_url.query # ""
    /\ registered[1][2].origin = "local"
    /\ last_upload.ok
    /\ last_upload.URL.query # ""
    /\ last_upload.URL.fragment # ""

RECURSIVE DataRows(_, _)
\* the data rows of the files from the i-th on, in output order
DataRows(split_files, i) ==
    IF i > Len(split_files) THEN <<>>
    ELSE split_files[i].rows \o DataRows(split_files, i + 1)

\* the file of the split() call is one that is split
IsSplit == determine_splits(call.documents[1].doc.rows, call.documents[1].doc.size) >= 2

\* C16: when a delimited file is split, every fragment starts with the header
\* of the file and the data rows of the fragments, taken in output order, are
\* the data rows of the file: none lost, none twice, none out of place.
C16_SplitKeepsRows ==
    (call.api = "split" /\ pc = "done" /\ IsSplit)
        => /\ \A k \in 1..Len(files) : files[k].headers = call.documents[1].headers
           /\ DataRows(files, 1) = call.documents[1].records
           /\ Len(call.documents[1].records) = call.documents[1].doc.rows
                  => Len(files) = Len(split(call.documents[1].doc))

\* a file of five data rows and a little over 2 MiB has been split in three
C16_Witness ==
    /\ call.api = "split"
    /\ pc = "done"
    /\ Len(call.documents[1].records) = 5
    /\ Len(files) = 3
    /\ files[3].rows = <<5>>

IngestApis == {"ingest", "async_ingest"}

\* every path of the input is a URL with scheme and network location or an
\* existing local path, and there is at least one
WellFormedInput ==
    /\ call.documents # <<>>
    /\ \A i \in 1..Len(call.documents) :
         is_valid_url(call.documents[i].file_path) \/ call.documents[i].exists

\* the positions in the input of the elements of a result group, in the
\* order of the group
Positions(group) == [k \in 1..Len(group) |-> group[k].idx]
Increasing(seq) == \A p \in 1..Len(seq) : \A q \in 1..Len(seq) : p < q => seq[p] < seq[q]

\* the records of remote_documents that prep_documents has made
PreparedRemote == SelectSeq(remote_documents, LAMBDA r : r.origin = "remote")

\* C17: for a non-empty input of URLs and existing local paths,
\* prep_documents puts every document in exactly one of its two result
\* groups, each group in input order; a URL with scheme and network location
\* is remote whether or not such a path exists locally, every other document
\* is local; and these are the groups the call goes on with.
C17_PrepPartitionsInOrder ==
    (call.api \in IngestApis /\ WellFormedInput)
        => LET documents == call.documents
               prep == prep_documents(documents)
           IN  /\ prep.ok
               /\ Len(prep.remote) + Len(prep.local) = Len(documents)
               /\ Increasing(Positions(prep.remote))
               /\ Increasing(Positions(prep.local))
               /\ \A i \in 1..Len(documents) :
                    IF is_valid_url(documents[i].file_path)
                    THEN \E k \in 1..Len(prep.remote) :
                            prep.remote[k] = RemoteRecord(i, documents[i])
                    ELSE \E k \in 1..Len(prep.local) :
                            prep.local[k] = LocalDoc(i, documents[i])
               /\ mode \in {"sync", "nonblocking", "async"}
                      => (PreparedRemote = prep.remote /\ local_documents = prep.local)

\* a local file followed by a URL: one document in each group
C17_Witness ==
    /\ call.api = "ingest"
    /\ call.documents = <<TxtDoc, RemoteDoc>>
    /\ ~RemoteDoc.exists
    /\ mode = "sync"
    /\ Positions(remote_documents) = <<2>>
    /\ Positions(local_documents) = <<1>>

\* the positions of the paths that are neither a URL nor an existing local path
InvalidPositions ==
    {i \in 1..Len(call.documents) :
        ~is_valid_url(call.documents[i].file_path) /\ ~call.documents[i].exists}
FirstInvalid == CHOOSE i \in InvalidPositions : \A j \in InvalidPositions : i <= j

\* C18: prep_documents never returns two empty groups; an empty input fails
\* with a validation error, and an input with a path that is neither a URL
\* nor an existing local path fails with the validation error naming the
\* first such path, no group being returned; the call ends with that error.
C18_PrepRejectsInvalid ==
    call.api \in IngestApis
        => LET prep == prep_documents(call.documents)
           IN  /\ prep.ok => Len(prep.remote) + Len(prep.local) >= 1
               /\ call.documents = <<>>
                      => (~prep.ok /\ prep.error = NoDocumentsError)
               /\ InvalidPositions # {}
                      => /\ ~prep.ok
                         /\ prep.error =
                                InvalidPathError(call.documents[FirstInvalid].file_path)
                         /\ prep.remote = <<>>
                         /\ prep.local = <<>>
               /\ ~prep.ok
                      => /\ CallFailed
                         /\ error = prep.error
                         /\ error.kind = "ValueError"
                         /\ remote_documents = <<>>
                         /\ local_documents = <<>>

\* two different invalid paths: the call has failed naming the first
\* of them
C18_Witness ==
    /\ call.api = "ingest"
    /\ Len(call.documents) = 2
    /\ InvalidPositions = {1, 2}
    /\ call.documents[1] # call.documents[2]
    /\ CallFailed
    /\ error = InvalidPathError(call.documents[1].file_path)
    /\ error # InvalidPathError(call.documents[2].file_path)

\* the errors raised by the validations of prep_documents, ingest,
\* AsyncGroundX.ingest and ingest_directory (the ingest call nested in
\* _upload_file_batch validates the URLs of the uploads)
ValidationErrors ==
    {NoDocumentsError, NoValidDocumentsError, TooManyDocumentsError, InvalidBucketError,
     InvalidDirectoryError, NoSupportedFilesError}
    \cup {InvalidPathError(d.file_path) : d \in DocTemplates}
    \cup {InvalidPathError(u) : u \in PresignedUrls}

\* C19: a call that ends with a validation error (no document, a path that
\* cannot be classified, bucket_id < 1, not a directory, no supported file,
\* too many documents without monitoring) has made no presign request, no
\* upload, no registration and no poll.
C19_ValidationBeforeNetwork ==
    (CallFailed /\ error \in ValidationErrors)
        => /\ uploads = <<>>
           /\ ~last_upload.called
           /\ transfers = 0
           /\ registered = <<>>
           /\ observed = <<>>
           /\ answered = InitialIngest

\* ingest_directory on a directory that holds no supported file
C19_Witness ==
    /\ call.api = "ingest_directory"
    /\ call.documents # <<>>
    /\ CallFailed
    /\ error = NoSupportedFilesError

RECURSIVE Concat(_, _, _)
\* the records of the registrations i .. k, one after the other
Concat(regs, i, k) == IF i > k THEN <<>> ELSE regs[i] \o Concat(regs, i + 1, k)

\* the remote loop of a synchronous call is over and nothing has failed
RemotePhaseDone ==
    /\ SyncCall
    /\ mode = "sync"
    /\ outcome # "raised"
    /\ pc \in {"local_loop", "process_local", "done"} \/ (pc = "monitor" /\ ret \in LocalReturns)

\* C20: synchronous ingest registers its R remote documents in exactly
\* ceil(R / n) registration calls, the first calls made, each but possibly
\* the last carrying n records, and together carrying every remote document
\* once in input order, also when R exceeds MAX_BATCH_SIZE.
C20_RemoteBatchesByCount ==
    RemotePhaseDone
        => LET R == Len(remote_documents)
               calls == CeilDiv(R, n)
           IN  /\ Len(registered) >= calls
               /\ \A i \in 1..Len(dispatched) : dispatched[i].kind = "remote" <=> i <= calls
               /\ \A i \in 1..(calls - 1) : Len(registered[i]) = n
               /\ calls > 0 => Len(registered[calls]) \in 1..n
               /\ Concat(registered, 1, calls) = remote_documents
               /\ \A i \in 1..Len(registered) : \A k \in 1..Len(registered[i]) :
                    registered[i][k].origin = "remote" => i <= calls

\* 51 remote documents with batches of 50: two registrations, of 50 and of 1
C20_Witness ==
    /\ RemotePhaseDone
    /\ Len(remote_documents) = MAX_BATCH_SIZE + 1
    /\ n = MAX_BATCH_SIZE
    /\ Len(registered) = 2
    /\ Len(registered[1]) = MAX_BATCH_SIZE
    /\ Len(registered[2]) = 1

\* the value of v brought into lo .. hi
Clamp(v, lo, hi) == IF v < lo THEN lo ELSE IF v > hi THEN hi ELSE v

\* C21: the batch size ingest and ingest_directory work with is the requested
\* batch_size clamped to MIN_BATCH_SIZE .. MAX_BATCH_SIZE, for a negative
\* request, for 0, for a request in the range and for one above
\* MAX_BATCH_SIZE, and it is MIN_BATCH_SIZE when no batch_size is given.
C21_BatchSizeIsClamped ==
    pc = "batched"
        => n = IF call.batch_size.isNone THEN MIN_BATCH_SIZE
               ELSE Clamp(call.batch_size.val, MIN_BATCH_SIZE, MAX_BATCH_SIZE)

\* ingest_directory has been called with a negative batch_size and works
\* with MIN_BATCH_SIZE
C21_Witness ==
    /\ pc = "batched"
    /\ call.api = "ingest_directory"
    /\ ~call.batch_size.isNone
    /\ call.batch_size.val < 0
    /\ n = MIN_BATCH_SIZE

\* the file the splitter was made for: its row count and its size in bytes
SplitRowCount == call.documents[1].doc.rows
SplitFileSize == call.documents[1].doc.size
SplitReturned(api) == call.api = api /\ pc = "done" /\ outcome = "returned"

\* C22 as stated: for every row count and file size the split factor is
\* max(ceil(rows / 1000), ceil(size / 1 MiB)).
C22_SplitFactorIsCeiling ==
    SplitReturned("determine_splits")
        => result = Max(CeilDiv(SplitRowCount, ROWS_PER_SPLIT), CeilDiv(SplitFileSize, MiB))

\* C22, amended: for every row count and file size the split factor is the
\* smallest f >= 1 with rows < 1000 * f and size < f MiB, which is
\* max(floor(rows / 1000) + 1, floor(size / 1 MiB) + 1); and when the split
\* factor is 1, split() returns the original path alone, the file untouched.
C22_SplitFactorIsFloorPlusOne ==
    /\ SplitReturned("determine_splits")
         => /\ result >= 1
            /\ SplitRowCount < ROWS_PER_SPLIT * result
            /\ SplitFileSize < MiB * result
            /\ \/ result = 1
               \/ SplitRowCount >= ROWS_PER_SPLIT * (result - 1)
               \/ SplitFileSize >= MiB * (result - 1)
    /\ (SplitReturned("split") /\ SplitRowCount < ROWS_PER_SPLIT /\ SplitFileSize < MiB)
         => /\ result = <<SourcePath(call.documents[1].doc)>>
            /\ files = <<[headers |-> call.documents[1].headers,
                          rows |-> call.documents[1].records]>>

\* a file of exactly 1000 rows and a few kilobytes has the split factor 2
C22_Witness ==
    /\ SplitReturned("determine_splits")
    /\ SplitRowCount = ROWS_PER_SPLIT
    /\ SplitFileSize < MiB
    /\ result = 2

\* C23: a delimited file that holds the header line only, whatever its size
\* in bytes, has the split factor 1, and split() returns the original path as
\* its only output.
C23_HeaderOnlyIsNotSplit ==
    (pc = "done" /\ outcome = "returned" /\ SplitRowCount = 0
        /\ call.documents[1].records = <<>>)
        => IF call.api = "determine_splits" THEN result = 1
           ELSE call.api = "split" => result = <<SourcePath(call.documents[1].doc)>>

\* the data rows of the file of the split() call, and its split factor
SplitRecords == Len(call.documents[1].records)
SplitFactor == determine_splits(SplitRowCount, SplitFileSize)

\* the fragments hold rows_per_file rows each but the last, which holds
\* between 1 and rows_per_file; there are as many as count, at most the split
\* factor, and none holds more than 1000 rows
FragmentsAre(rows_per_file, count) ==
    /\ \A k \in 1..(Len(files) - 1) : Len(files[k].rows) = rows_per_file
    /\ Len(files) >= 1
    /\ Len(files[Len(files)].rows) \in 1..rows_per_file
    /\ Len(files) = count
    /\ Len(files) <= SplitFactor
    /\ \A k \in 1..Len(files) : Len(files[k].rows) <= ROWS_PER_SPLIT

\* C24 as stated: a file with R data rows split with factor f >= 2 gives
\* fragments of exactly ceil(R / f) data rows but the last, which holds
\* between 1 and ceil(R / f); there are ceil(R / ceil(R / f)) fragments, at
\* most f, and no fragment holds more than 1000 data rows.
C24_FragmentsByDataRows ==
    (SplitReturned("split") /\ IsSplit /\ SplitRecords >= 1)
        => FragmentsAre(CeilDiv(SplitRecords, SplitFactor),
                        CeilDiv(SplitRecords, CeilDiv(SplitRecords, SplitFactor)))

\* C24, amended: with L the number of lines after the header line (which is
\* R unless a quoted field spans lines), a file with R >= 1 data rows split
\* with factor f >= 2 gives fragments of exactly ceil(L / f) data rows but the
\* last, which holds between 1 and ceil(L / f); there are ceil(R / ceil(L / f))
\* fragments, at most f, and no fragment holds more than 1000 data rows; in
\* particular the claim holds as stated when every data row is one line.
C24_FragmentsByLines ==
    (SplitReturned("split") /\ IsSplit /\ SplitRecords >= 1)
        => /\ FragmentsAre(CeilDiv(SplitRowCount, SplitFactor),
                           CeilDiv(SplitRecords, CeilDiv(SplitRowCount, SplitFactor)))
           /\ SplitRecords = SplitRowCount
                => FragmentsAre(CeilDiv(SplitRecords, SplitFactor),
                                CeilDiv(SplitRecords, CeilDiv(SplitRecords, SplitFactor)))

\* a file of 1999 one-line rows and a few kilobytes has been split in two
\* fragments of 1000 and 999 rows
C24_Witness ==
    /\ SplitReturned("split")
    /\ SplitRecords = 2 * ROWS_PER_SPLIT - 1
    /\ SplitRowCount = SplitRecords
    /\ SplitFactor = 2
    /\ Len(files) = 2
    /\ Len(files[1].rows) = ROWS_PER_SPLIT
    /\ Len(files[2].rows) = ROWS_PER_SPLIT - 1

\* C25: for comma- and for tab-separated sources, the fragments of a split are
\* named {original_stem}_{n}.{ext} with n = 1, 2, ... in output order and ext
\* the extension of the original file, so that a fragment is uploaded with
\* the declared type of its source.
C25_FragmentsKeepExtension ==
    (SplitReturned("split") /\ IsSplit)
        => \A k \in 1..Len(result) :
              /\ result[k].stem_of = call.documents[1].doc.file_path.path
              /\ result[k].number = k
              /\ result[k].suffix = call.documents[1].doc.suffix

\* the positions of the input documents classified as local
LocalPositions ==
    {i \in 1..Len(call.documents) :
        ~is_valid_url(call.documents[i].file_path) /\ is_valid_local_path(call.documents[i])}

\* the uploads logged for fragment f of the document at position i
UploadsOf(i, f) == {u \in 1..Len(uploads) : uploads[u] = [idx |-> i, frag |-> f]}

\* C26: when ingest returns successfully, every local document accepted by
\* classification, whatever its suffix and whether it is a file or a
\* directory, has at least one record derived from it in a registration
\* call, and each of its fragments has been uploaded exactly once.
C26_EveryLocalDocumentRegistered ==
    (call.api = "ingest" /\ outcome = "returned")
        => \A i \in LocalPositions :
              /\ \E j \in 1..Len(registered) : \E k \in 1..Len(registered[j]) :
                    /\ registered[j][k].origin = "local"
                    /\ registered[j][k].idx = i
              /\ \A f \in 1..Len(split_doc(call.documents[i])) :
                    Cardinality(UploadsOf(i, f)) = 1

\* C27: every registration call made by ingest, in either mode, carries at
\* most MAX_BATCH_SIZE records, each fragment of a split local file counting
\* as one record.
C27_RegistrationAtMostMax ==
    call.api = "ingest"
        => \A j \in 1..Len(registered) : Len(registered[j]) <= MAX_BATCH_SIZE

====
